---- MODULE Spec2Model ----
(***************************************************************************)
(* Model of the redirect tester (src/app.py): the URL normalizer, the      *)
(* per-pair check (HEAD, fallback GET, classification), the thread-pool    *)
(* dispatcher with its progress updates, the pairing of the sheet's source *)
(* and target columns, and the result section with the broken rows.        *)
(***************************************************************************)
EXTENDS Integers, Sequences, FiniteSets, TLC

VARIABLES
    rows,         \* the data frame: a sequence of [source, target] cells
    max_workers,  \* the worker bound handed to ThreadPoolExecutor
    pc,           \* where the script's main thread is
    pairs,        \* list(zip(...)) of line 59
    total,        \* len(pairs)
    futures,      \* the futures dict: per submitted pair, the state of its check
    results,      \* the results list
    completed,    \* the completed counter
    events,       \* the progress updates emitted so far
    broken_df,    \* the rows of line 85
    notice,       \* what the result section shows: "success" or "warning"
    norm_arg,     \* normalize harness: the argument
    norm_ret      \* normalize harness: the values returned by successive calls

vars == <<rows, max_workers, pc, pairs, total, futures, results, completed,
          events, broken_df, notice, norm_arg, norm_ret>>

(***************************************************************************)
(* Bounds of the model and constants of the program.                       *)
(***************************************************************************)
MaxRows == 2
MaxLen == 3
MaxTotal == 50
TIMEOUT == 10
MAX_WORKERS == 15

(***************************************************************************)
(* Python values that occur in a cell, a URL or a result field.  A string  *)
(* is a sequence of one-character strings.                                 *)
(***************************************************************************)
Str(s) == [t |-> "str", s |-> s, n |-> 0]
Num(n) == [t |-> "num", s |-> <<>>, n |-> n]
None == [t |-> "none", s |-> <<>>, n |-> 0]
NaN == [t |-> "nan", s |-> <<>>, n |-> 0]

Alphabet == {"a", "A", "/", " "}
Whitespace == {" "}

RECURSIVE StringsUpTo(_)
StringsUpTo(k) ==
    IF k = 0 THEN {<<>>}
    ELSE LET shorter == StringsUpTo(k - 1)
         IN shorter \cup {Append(s, c) : s \in {x \in shorter : Len(x) = k - 1}, c \in Alphabet}

(***************************************************************************)
(* str.strip(), str.lower() and str.rstrip("/").                           *)
(***************************************************************************)
RECURSIVE LStrip(_, _)
LStrip(s, chars) ==
    IF s # <<>> /\ Head(s) \in chars THEN LStrip(Tail(s), chars) ELSE s

RECURSIVE RStrip(_, _)
RStrip(s, chars) ==
    IF s # <<>> /\ s[Len(s)] \in chars
    THEN RStrip(SubSeq(s, 1, Len(s) - 1), chars)
    ELSE s

Strip(s) == RStrip(LStrip(s, Whitespace), Whitespace)

LowerChar(c) == IF c = "A" THEN "a" ELSE c

Lower(s) == [i \in 1..Len(s) |-> LowerChar(s[i])]

\* Python truth value of a cell: None, "" and 0 are false.
Falsy(url) ==
    \/ url.t = "none"
    \/ url.t = "str" /\ url.s = <<>>
    \/ url.t = "num" /\ url.n = 0

\* url.strip() on a value that is not a string raises AttributeError.
NormalizeRaises(url) == ~Falsy(url) /\ url.t # "str"

normalize(url) ==
    IF Falsy(url) THEN <<>> ELSE RStrip(Lower(Strip(url.s)), {"/"})

(***************************************************************************)
(* check_redirect.  A transport outcome is either a response (its status   *)
(* code and final URL) or a raised RequestException.  The status strings   *)
(* are kept by their parts; the three emoji prefixes are written by name.  *)
(***************************************************************************)
CrossMark == "cross-mark"
WarningSign == "warning-sign"
CheckMark == "check-mark"

Response(status, url) == [exc |-> FALSE, status |-> status, url |-> url]
RequestException == [exc |-> TRUE, status |-> 0, url |-> <<>>]

StatusText(emoji, text, code, url) ==
    [emoji |-> emoji, text |-> text, code |-> code, url |-> url]

ResultTuple(source, target, status, final_url) ==
    [source |-> source, target |-> target, status |-> status, final_url |-> final_url]

NoResult == ResultTuple(None, None, StatusText("", "", 0, <<>>), None)

Returned(r) == [exc |-> "", ret |-> r]
Raised(e) == [exc |-> e, ret |-> NoResult]

\* NeedsFallback asking for the GET after every status but 200
NeedsFallbackUnlessOk(status) == status # 200

\* NeedsFallback without the test for the status 0
NeedsFallbackOnErrorOnly(status) == status >= 400

\* line 26: the HEAD's status asks for the fallback GET
NeedsFallback(status) == status >= 400 \/ status = 0

\* HttpErrorTuple without the final URL
HttpErrorTupleWithoutUrl(source, target, status, final_url) ==
    ResultTuple(source, target, StatusText(CrossMark, "HTTP Fehler", status, <<>>), None)

\* line 38
HttpErrorTuple(source, target, status, final_url) ==
    ResultTuple(source, target, StatusText(CrossMark, "HTTP Fehler", status, <<>>),
                Str(final_url))

\* line 40
WrongRedirectTuple(source, target, final_url) ==
    ResultTuple(source, target,
                StatusText(WarningSign, "Falsche Weiterleitung", 0, final_url),
                Str(final_url))

\* line 42
CorrectTuple(source, target, final_url) ==
    ResultTuple(source, target, StatusText(CheckMark, "Korrekt weitergeleitet", 0, <<>>),
                Str(final_url))

\* Classify with the comparison of the URLs made before the test of the status
ClassifyUrlFirst(source, target, status, final_url) ==
    IF NormalizeRaises(Str(final_url)) \/ NormalizeRaises(target)
    THEN Raised("AttributeError")
    ELSE IF normalize(Str(final_url)) # normalize(target)
    THEN Returned(WrongRedirectTuple(source, target, final_url))
    ELSE IF status >= 400 THEN Returned(HttpErrorTuple(source, target, status, final_url))
    ELSE Returned(CorrectTuple(source, target, final_url))

\* Classify with the error test written status > 400
ClassifyAbove400(source, target, status, final_url) ==
    IF status > 400 THEN Returned(HttpErrorTuple(source, target, status, final_url))
    ELSE IF NormalizeRaises(Str(final_url)) \/ NormalizeRaises(target)
    THEN Raised("AttributeError")
    ELSE IF normalize(Str(final_url)) # normalize(target)
    THEN Returned(WrongRedirectTuple(source, target, final_url))
    ELSE Returned(CorrectTuple(source, target, final_url))

\* lines 37-42: the classification of the final status and URL; normalize
\* raises on a target that is not a string
Classify(source, target, status, final_url) ==
    IF status >= 400 THEN Returned(HttpErrorTuple(source, target, status, final_url))
    ELSE IF NormalizeRaises(Str(final_url)) \/ NormalizeRaises(target)
    THEN Raised("AttributeError")
    ELSE IF normalize(Str(final_url)) # normalize(target)
    THEN Returned(WrongRedirectTuple(source, target, final_url))
    ELSE Returned(CorrectTuple(source, target, final_url))

\* TransportFailure with the except clause missing: the exception leaves the check
TransportFailureUncaught(source, target) == Raised("RequestException")

\* lines 44-45: a RequestException of either request
TransportFailure(source, target) ==
    Returned(ResultTuple(source, target, StatusText(CrossMark, "Fehler:", 0, <<>>), None))

(***************************************************************************)
(* The progress percentage int(completed / total * 100): a true division   *)
(* of two integers to a double (53-bit significand, round half to even),   *)
(* its product with 100.0 rounded again to 53 bits, and the truncation to  *)
(* an integer.  A double is [m, e], of value m * 2^e: m is written in      *)
(* base 2^13 as five digits, the first of which holds what is above 2^52.  *)
(***************************************************************************)
RECURSIVE Pow2(_)
Pow2(k) == IF k = 0 THEN 1 ELSE 2 * Pow2(k - 1)

Base == Pow2(13)

RECURSIVE BitLen(_)
BitLen(k) == IF k = 0 THEN 0 ELSE 1 + BitLen(k \div 2)

\* the smallest s with a * 2^s >= b
RECURSIVE ShiftFor(_, _)
ShiftFor(a, b) == IF a >= b THEN 0 ELSE 1 + ShiftFor(2 * a, b)

\* k more base-2^13 digits of the quotient r / b (r < b), and the remainder
RECURSIVE DivDigits(_, _, _)
DivDigits(r, b, k) ==
    IF k = 0 THEN [digits |-> <<>>, rem |-> r]
    ELSE LET rest == DivDigits((r * Base) % b, b, k - 1)
         IN [digits |-> <<(r * Base) \div b>> \o rest.digits, rem |-> rest.rem]

\* digits + c, the carry running up to the first digit
RECURSIVE AddCarry(_, _)
AddCarry(digits, c) ==
    IF Len(digits) = 1 THEN <<digits[1] + c>>
    ELSE LET t == digits[Len(digits)] + c
         IN Append(AddCarry(SubSeq(digits, 1, Len(digits) - 1), t \div Base), t % Base)

\* digits * k + carry
RECURSIVE MulDigits(_, _, _)
MulDigits(digits, k, carry) ==
    IF Len(digits) = 1 THEN <<digits[1] * k + carry>>
    ELSE LET t == digits[Len(digits)] * k + carry
         IN Append(MulDigits(SubSeq(digits, 1, Len(digits) - 1), k, t \div Base), t % Base)

\* m cut to its 53 leading bits, round half to even (the bits cut become 0)
RoundDouble(m) ==
    LET extra == BitLen(m[1]) - 1
        unit == Pow2(extra)
        dropped == m[5] % unit
        odd == (m[5] \div unit) % 2 = 1
        up == extra > 0 /\ (2 * dropped > unit \/ (2 * dropped = unit /\ odd))
    IN AddCarry([m EXCEPT ![5] = m[5] - dropped], IF up THEN unit ELSE 0)

\* a / b for 1 <= a <= b
TrueDiv(a, b) ==
    LET s == ShiftFor(a, b)
        d == DivDigits(a * Pow2(s) - b, b, 4)
        m == <<1>> \o d.digits
        up == 2 * d.rem > b \/ (2 * d.rem = b /\ m[5] % 2 = 1)
    IN [m |-> AddCarry(m, IF up THEN 1 ELSE 0), e |-> 0 - s - 52]

\* x * k for a double x and an integer 1 <= k < 2^12
MulDouble(x, k) == [m |-> RoundDouble(MulDigits(x.m, k, 0)), e |-> x.e]

\* int(x) for a double 0 < x whose exponent is at most -52
IntOfDouble(x) == x.m[1] \div Pow2(0 - 52 - x.e)

\* line 75
Percent(done, all) == IntOfDouble(MulDouble(TrueDiv(done, all), 100))

\* Percent for every total up to the bound, computed once
PercentTable == [all \in 1..MaxTotal |-> [done \in 1..all |-> Percent(done, all)]]

ProgressEvent(done, all) ==
    [completed |-> done, total |-> all,
     percent |-> IF all <= MaxTotal THEN PercentTable[all][done] ELSE Percent(done, all)]

(***************************************************************************)
(* The sheet and the pairs read from it (lines 56-60).                     *)
(***************************************************************************)
Min(a, b) == IF a <= b THEN a ELSE b

Column(df, name) == [i \in 1..Len(df) |-> df[i][name]]

NotNa(cell) == cell.t # "nan"

DropNa(col) == SelectSeq(col, NotNa)

Zip(xs, ys) == [i \in 1..Min(Len(xs), Len(ys)) |-> <<xs[i], ys[i]>>]

MakePairs(df) == Zip(DropNa(Column(df, "source")), DropNa(Column(df, "target")))

(***************************************************************************)
(* The inputs the model draws: sheets, worker bounds and what the network  *)
(* answers.  The source URL of row i is a URL of its own.                  *)
(***************************************************************************)
SourceUrl(i) == Str([k \in 1..i |-> "s"])

Sheets(n, targets) ==
    {[i \in 1..n |-> [source |-> IF present[i] THEN SourceUrl(i) ELSE NaN,
                      target |-> cells[i]]] :
        present \in [1..n -> BOOLEAN], cells \in [1..n -> targets \cup {NaN}]}

DispatchTargets == {Str(<<"A">>), Str(<<"b">>), Num(5)}

DispatchNet ==
    {RequestException, Response(200, <<"a", "/">>), Response(400, <<"a", "/">>)}

CheckTargets ==
    {Str(<<"A">>), Str(<<" ", "a", "/", "/">>), Str(<<"a", " ">>), Str(<<"b">>),
     Num(5), Num(0)}

CheckNet ==
    {RequestException} \cup
    {Response(st, u) : st \in {0, 200, 399, 400, 404},
                       u \in {<<"a">>, <<"A", "/">>, <<"b">>}}

WorkerLimits == {0, 1, 2, MAX_WORKERS}

(***************************************************************************)
(* The state of one submitted check and of the script.                     *)
(***************************************************************************)
NoOutcome == Returned(NoResult)

NewFuture == [st |-> "new", log |-> <<>>, out |-> NoOutcome]

\* one request as the transport saw it: the method, the URL asked for, and the
\* response or the exception it ended with
Request(method, source, o) ==
    [method |-> method, to |-> source, exc |-> o.exc, status |-> o.status, url |-> o.url]

Idle ==
    /\ pairs = <<>>
    /\ total = 0
    /\ futures = <<>>
    /\ results = <<>>
    /\ completed = 0
    /\ events = <<>>
    /\ broken_df = <<>>
    /\ notice = ""

NoHarness == norm_arg = None /\ norm_ret = <<>>

Init ==
    /\ rows \in UNION {Sheets(n, DispatchTargets) : n \in 0..MaxRows}
    /\ max_workers \in WorkerLimits
    /\ pc = "pairs"
    /\ Idle
    /\ NoHarness

InitCheck ==
    /\ rows \in Sheets(1, CheckTargets)
    /\ max_workers = MAX_WORKERS
    /\ pc = "pairs"
    /\ Idle
    /\ NoHarness

\* lines 59-60
BuildPairs ==
    /\ pc = "pairs"
    /\ pairs' = MakePairs(rows)
    /\ total' = Len(MakePairs(rows))
    /\ futures' = [i \in 1..Len(MakePairs(rows)) |-> NewFuture]
    /\ pc' = "pool"
    /\ UNCHANGED <<rows, max_workers, results, completed, events, broken_df, notice,
                   norm_arg, norm_ret>>

\* CreatePool without the executor's test of its bound
CreatePoolUnchecked ==
    /\ pc = "pool"
    /\ pc' = "submit"
    /\ UNCHANGED <<rows, max_workers, pairs, total, futures, results, completed,
                   events, broken_df, notice, norm_arg, norm_ret>>

\* lines 63-69: ThreadPoolExecutor(max_workers) refuses a bound <= 0
CreatePool ==
    /\ pc = "pool"
    /\ pc' = IF max_workers <= 0 THEN "ValueError" ELSE "submit"
    /\ UNCHANGED <<rows, max_workers, pairs, total, futures, results, completed,
                   events, broken_df, notice, norm_arg, norm_ret>>

\* line 70: executor.submit for the next pair, in the order of the list
Submit(i) ==
    /\ pc = "submit"
    /\ futures[i].st = "new"
    /\ \A j \in 1..(i - 1) : futures[j].st # "new"
    /\ futures' = [futures EXCEPT ![i].st = "pending"]
    /\ UNCHANGED <<rows, max_workers, pc, pairs, total, results, completed, events,
                   broken_df, notice, norm_arg, norm_ret>>

\* lines 71-72: every pair is submitted; as_completed starts
StartCollect ==
    /\ pc = "submit"
    /\ \A j \in 1..total : futures[j].st # "new"
    /\ pc' = "collect"
    /\ completed' = 0
    /\ UNCHANGED <<rows, max_workers, pairs, total, futures, results, events,
                   broken_df, notice, norm_arg, norm_ret>>

Running == {i \in 1..total : futures[i].st \in {"head", "get"}}

\* CanStart with the bound off by one
CanStartOneMore(i) ==
    /\ futures[i].st = "pending"
    /\ \A j \in 1..(i - 1) : futures[j].st # "pending"
    /\ Cardinality({j \in 1..total : futures[j].st \in {"head", "get"}}) <= max_workers

\* a worker thread of the pool takes the oldest queued check and issues its
\* HEAD request (line 21); the pool runs at most max_workers threads
CanStart(i) ==
    /\ futures[i].st = "pending"
    /\ \A j \in 1..(i - 1) : futures[j].st # "pending"
    /\ Cardinality(Running) < max_workers

Start(i) ==
    /\ CanStart(i)
    /\ futures' = [futures EXCEPT ![i].st = "head"]
    /\ UNCHANGED <<rows, max_workers, pc, pairs, total, results, completed, events,
                   broken_df, notice, norm_arg, norm_ret>>

Finished(f, req, outcome) ==
    [f EXCEPT !.st = "finished", !.log = Append(f.log, req), !.out = outcome]

\* AfterHead with a failed HEAD falling back to the GET as well
AfterHeadFallingBack(f, pair, o) ==
    IF o.exc \/ NeedsFallback(o.status)
    THEN [f EXCEPT !.st = "get", !.log = Append(f.log, Request("HEAD", pair[1], o))]
    ELSE Finished(f, Request("HEAD", pair[1], o), Classify(pair[1], pair[2], o.status, o.url))

\* lines 21-45 after the HEAD request returned o or raised
AfterHead(f, pair, o) ==
    IF o.exc THEN Finished(f, Request("HEAD", pair[1], o), TransportFailure(pair[1], pair[2]))
    ELSE IF NeedsFallback(o.status)
    THEN [f EXCEPT !.st = "get", !.log = Append(f.log, Request("HEAD", pair[1], o))]
    ELSE Finished(f, Request("HEAD", pair[1], o), Classify(pair[1], pair[2], o.status, o.url))

\* AfterGet with a failed GET tried again
AfterGetRetrying(f, pair, o) ==
    IF o.exc THEN [f EXCEPT !.log = Append(f.log, Request("GET", pair[1], o))]
    ELSE Finished(f, Request("GET", pair[1], o), Classify(pair[1], pair[2], o.status, o.url))

\* lines 27-45 after the fallback GET request returned o or raised
AfterGet(f, pair, o) ==
    IF o.exc THEN Finished(f, Request("GET", pair[1], o), TransportFailure(pair[1], pair[2]))
    ELSE Finished(f, Request("GET", pair[1], o), Classify(pair[1], pair[2], o.status, o.url))

HeadReturns(i, net) ==
    /\ futures[i].st = "head"
    /\ \E o \in net : futures' = [futures EXCEPT ![i] = AfterHead(futures[i], pairs[i], o)]
    /\ UNCHANGED <<rows, max_workers, pc, pairs, total, results, completed, events,
                   broken_df, notice, norm_arg, norm_ret>>

GetReturns(i, net) ==
    /\ futures[i].st = "get"
    /\ \E o \in net : futures' = [futures EXCEPT ![i] = AfterGet(futures[i], pairs[i], o)]
    /\ UNCHANGED <<rows, max_workers, pc, pairs, total, results, completed, events,
                   broken_df, notice, norm_arg, norm_ret>>

\* Collected with the list assigned instead of appended to
CollectedAssigning(list, outcome) == <<outcome.ret>>

\* line 73: results.append(future.result())
Collected(list, outcome) == Append(list, outcome.ret)

\* CountAndReport with an increment lost: the counter is set from a stale 0
CountAndReportStale ==
    /\ completed' = 1
    /\ events' = Append(events, ProgressEvent(1, total))

\* lines 74-77: the counter and the progress update
CountAndReport ==
    /\ completed' = completed + 1
    /\ events' = Append(events, ProgressEvent(completed + 1, total))

\* lines 72-77: as_completed yields a finished future; future.result() returns
\* the check's tuple or raises what the check raised, which ends the script
Collect(i) ==
    /\ pc = "collect"
    /\ futures[i].st = "finished"
    /\ futures' = [futures EXCEPT ![i].st = "yielded"]
    /\ IF futures[i].out.exc # ""
       THEN /\ pc' = "crashed"
            /\ UNCHANGED <<results, completed, events>>
       ELSE /\ results' = Collected(results, futures[i].out)
            /\ CountAndReport
            /\ pc' = pc
    /\ UNCHANGED <<rows, max_workers, pairs, total, broken_df, notice, norm_arg, norm_ret>>

\* line 79: the loop and the pool are left
Finish ==
    /\ pc = "collect"
    /\ \A j \in 1..total : futures[j].st = "yielded"
    /\ pc' = "done"
    /\ UNCHANGED <<rows, max_workers, pairs, total, futures, results, completed,
                   events, broken_df, notice, norm_arg, norm_ret>>

\* StartsWithBroken testing the first prefix only
StartsWithCrossMark(r) == r.status.emoji = CrossMark

\* line 85: the status text starts with one of the two prefixes
StartsWithBroken(r) == r.status.emoji \in {CrossMark, WarningSign}

\* lines 82-85: the rows of the results whose status starts so
BrokenRows(list) == SelectSeq(list, StartsWithBroken)

\* lines 82-99: the result section, a success notice when no row is broken,
\* else a warning with the broken rows and their download
Report ==
    /\ pc = "done"
    /\ broken_df' = BrokenRows(results)
    /\ notice' = IF BrokenRows(results) = <<>> THEN "success" ELSE "warning"
    /\ pc' = "reported"
    /\ UNCHANGED <<rows, max_workers, pairs, total, futures, results, completed,
                   events, norm_arg, norm_ret>>

Run(net) ==
    \/ BuildPairs
    \/ CreatePool
    \/ \E i \in 1..total : Submit(i)
    \/ StartCollect
    \/ \E i \in 1..total : Start(i)
    \/ \E i \in 1..total : HeadReturns(i, net)
    \/ \E i \in 1..total : GetReturns(i, net)
    \/ \E i \in 1..total : Collect(i)
    \/ Finish
    \/ Report

Next == Run(DispatchNet)

NextCheck == Run(CheckNet)

Spec == Init /\ [][Next]_vars

SpecCheck == InitCheck /\ [][NextCheck]_vars

(***************************************************************************)
(* The run under fair scheduling: the main thread keeps taking its next    *)
(* step, a free worker thread takes the oldest queued check, and every     *)
(* request ends, with a response or an exception, the timeout of TIMEOUT   *)
(* seconds bounding it.                                                    *)
(***************************************************************************)
MainThread ==
    \/ BuildPairs
    \/ CreatePool
    \/ \E i \in 1..total : Submit(i)
    \/ StartCollect
    \/ \E i \in 1..total : Collect(i)
    \/ Finish
    \/ Report

WorkerTakes(i) == i <= total /\ Start(i)

RequestEnds(i) == i <= total /\ (HeadReturns(i, DispatchNet) \/ GetReturns(i, DispatchNet))

Fairness ==
    /\ WF_vars(MainThread)
    /\ \A i \in 1..MaxRows : WF_vars(WorkerTakes(i))
    /\ \A i \in 1..MaxRows : WF_vars(RequestEnds(i))

SpecFair == Init /\ [][Next]_vars /\ Fairness

(***************************************************************************)
(* normalize on its own: the argument is drawn from the strings over the   *)
(* alphabet and None, and normalize is applied to it and then to what it   *)
(* returned.                                                               *)
(***************************************************************************)
InitNormalize ==
    /\ norm_arg \in {Str(s) : s \in StringsUpTo(MaxLen)} \cup {None}
    /\ norm_ret = <<>>
    /\ rows = <<>>
    /\ max_workers = MAX_WORKERS
    /\ pc = "normalize"
    /\ Idle

NormalizeCall ==
    /\ pc = "normalize"
    /\ Len(norm_ret) < 2
    /\ norm_ret' = Append(norm_ret,
           normalize(IF norm_ret = <<>> THEN norm_arg ELSE Str(norm_ret[Len(norm_ret)])))
    /\ UNCHANGED <<rows, max_workers, pc, pairs, total, futures, results, completed,
                   events, broken_df, notice, norm_arg>>

SpecNormalize == InitNormalize /\ [][NormalizeCall]_vars

(***************************************************************************)
(* The progress computation on its own: the loop's counter and update for  *)
(* a total drawn up to MaxTotal.                                           *)
(***************************************************************************)
InitProgress ==
    /\ total \in 0..MaxTotal
    /\ completed = 0
    /\ events = <<>>
    /\ pairs = <<>>
    /\ futures = <<>>
    /\ results = <<>>
    /\ rows = <<>>
    /\ max_workers = MAX_WORKERS
    /\ broken_df = <<>>
    /\ notice = ""
    /\ pc = "progress"
    /\ NoHarness

ProgressStep ==
    /\ pc = "progress"
    /\ completed < total
    /\ CountAndReport
    /\ UNCHANGED <<rows, max_workers, pc, pairs, total, futures, results, broken_df,
                   notice, norm_arg,
                   norm_ret>>

SpecProgress == InitProgress /\ [][ProgressStep]_vars

(***************************************************************************)
(* The vocabulary of the design: the kind of a result tuple, read from its *)
(* status string, and the checks that have returned or raised.             *)
(***************************************************************************)
StatusKind(r) ==
    IF r.status.emoji = CheckMark THEN "Ok"
    ELSE IF r.status.emoji = WarningSign THEN "WrongDestination"
    ELSE IF r.status.emoji = CrossMark /\ r.status.text = "HTTP Fehler" THEN "HttpError"
    ELSE IF r.status.emoji = CrossMark /\ r.status.text = "Fehler:" THEN "TransportError"
    ELSE "none"

Over == {i \in 1..total : futures[i].st \in {"finished", "yielded"}}

ReturnedChecks == {i \in Over : futures[i].out.exc = ""}

LastRequest(i) == futures[i].log[Len(futures[i].log)]

TransportFailed(i) == \E k \in 1..Len(futures[i].log) : futures[i].log[k].exc

ResultsOf(i) ==
    {k \in 1..Len(results) :
        results[k].source = pairs[i][1] /\ results[k].target = pairs[i][2]}

Kinds == {StatusKind(results[k]) : k \in 1..Len(results)}

(***************************************************************************)
(* C1.  A completed run leaves exactly one result per input pair in the    *)
(* results list, and so exactly total of them, whatever the pairs'         *)
(* outcomes were.                                                          *)
(***************************************************************************)
C1_OneResultPerPair ==
    pc = "done" =>
        /\ Len(results) = Len(pairs)
        /\ \A i \in 1..Len(pairs) : Cardinality(ResultsOf(i)) = 1

C1_Witness ==
    /\ pc = "done"
    /\ Len(pairs) = 2
    /\ "TransportError" \in Kinds
    /\ Kinds \cap {"Ok", "WrongDestination", "HttpError"} # {}

(***************************************************************************)
(* C2.  A tuple returned by check_redirect is Ok exactly when the request  *)
(* that ended the check (the GET if the fallback ran, else the HEAD)       *)
(* answered with a status below 400 and the normalized final URL equals    *)
(* the normalized target.                                                  *)
(***************************************************************************)
C2_OkCriterion ==
    \A i \in ReturnedChecks :
        LET r == futures[i].out.ret
            last == LastRequest(i)
        IN StatusKind(r) = "Ok" <=>
               /\ ~last.exc
               /\ last.status < 400
               /\ normalize(r.final_url) = normalize(r.target)

C2_Witness ==
    \E i \in ReturnedChecks :
        /\ StatusKind(futures[i].out.ret) = "Ok"
        /\ Len(futures[i].log) = 2
        /\ futures[i].out.ret.final_url.s # futures[i].out.ret.target.s

(***************************************************************************)
(* C3.  When the HEAD request answered with a status >= 400 or with the    *)
(* status 0, a GET request to the same source was made after it, and the   *)
(* returned tuple is classified by the GET's outcome: a transport error if *)
(* the GET raised, an HTTP error with the GET's status if that is >= 400,  *)
(* else Ok or wrong destination by the GET's final URL.                    *)
(***************************************************************************)
FellBack(i) ==
    /\ futures[i].log # <<>>
    /\ ~futures[i].log[1].exc
    /\ (futures[i].log[1].status >= 400 \/ futures[i].log[1].status = 0)

KindBy(req, target) ==
    IF req.exc THEN "TransportError"
    ELSE IF req.status >= 400 THEN "HttpError"
    ELSE IF normalize(Str(req.url)) = normalize(target) THEN "Ok"
    ELSE "WrongDestination"

C3_FallbackDecides ==
    \A i \in Over :
        FellBack(i) =>
            LET log == futures[i].log
                r == futures[i].out.ret
            IN /\ Len(log) = 2
               /\ log[1].method = "HEAD"
               /\ log[2].method = "GET"
               /\ log[2].to = pairs[i][1]
               /\ futures[i].out.exc = "" =>
                      /\ StatusKind(r) = KindBy(log[2], pairs[i][2])
                      /\ StatusKind(r) = "HttpError" => r.status.code = log[2].status
                      /\ StatusKind(r) # "TransportError" => r.final_url = Str(log[2].url)

C3_Witness ==
    \E i \in ReturnedChecks :
        /\ FellBack(i)
        /\ futures[i].log[1].status = 0
        /\ futures[i].log[1].url # futures[i].log[2].url
        /\ StatusKind(futures[i].out.ret) = "Ok"
        /\ KindBy(futures[i].log[1], pairs[i][2]) = "WrongDestination"

(***************************************************************************)
(* C4.  The checks that have started and not finished never outnumber the  *)
(* worker bound; a pair beyond the bound stays queued.                     *)
(***************************************************************************)
C4_ConcurrencyBound == Cardinality(Running) <= max_workers

C4_Witness ==
    /\ max_workers >= 1
    /\ Cardinality(Running) = max_workers
    /\ \E i \in 1..total : futures[i].st = "pending"

(***************************************************************************)
(* C5.  A RequestException of a pair's request never ends the run: the     *)
(* check returns a transport-error tuple, the loop is left by an exception *)
(* only for a check that raised without any transport failure, and a run   *)
(* that reaches its end has recorded every pair, the failed ones as        *)
(* transport errors.                                                       *)
(***************************************************************************)
C5_TransportFailureContained ==
    /\ \A i \in Over :
           TransportFailed(i) =>
               /\ futures[i].out.exc = ""
               /\ StatusKind(futures[i].out.ret) = "TransportError"
    /\ pc = "crashed" =>
           \E i \in Over :
               /\ futures[i].st = "yielded"
               /\ futures[i].out.exc # ""
               /\ ~TransportFailed(i)
    /\ pc = "done" =>
           \A i \in 1..total :
               /\ ResultsOf(i) # {}
               /\ TransportFailed(i) =>
                      \A k \in ResultsOf(i) : StatusKind(results[k]) = "TransportError"

C5_Witness ==
    /\ pc = "done"
    /\ Len(results) = 2
    /\ StatusKind(results[1]) = "TransportError"
    /\ StatusKind(results[2]) = "Ok"
    /\ results[1].source = pairs[1][1]

(***************************************************************************)
(* C6.  No exception leaves a check: every check that is over has returned *)
(* a tuple, and future.result() never raises into the collection loop.     *)
(***************************************************************************)
C6_NoExceptionCrosses ==
    /\ \A i \in Over : futures[i].out.exc = ""
    /\ pc # "crashed"

(***************************************************************************)
(* C7.  A returned tuple has no final URL exactly when it is a transport   *)
(* error; an Ok, wrong-destination or HTTP-error tuple carries the final   *)
(* URL of the response that was classified.                                *)
(***************************************************************************)
C7_FinalUrlAbsence ==
    \A i \in ReturnedChecks :
        LET r == futures[i].out.ret
            last == LastRequest(i)
        IN /\ StatusKind(r) \in {"Ok", "WrongDestination", "HttpError", "TransportError"}
           /\ r.final_url = None <=> StatusKind(r) = "TransportError"
           /\ StatusKind(r) # "TransportError" =>
                  /\ ~last.exc
                  /\ r.final_url = Str(last.url)

C7_Witness ==
    \E i \in ReturnedChecks :
        /\ StatusKind(futures[i].out.ret) = "HttpError"
        /\ Len(futures[i].log) = 2
        /\ futures[i].log[1].url # futures[i].log[2].url
        /\ futures[i].out.ret.final_url = Str(futures[i].log[2].url)

(***************************************************************************)
(* C8.  normalize is idempotent: applied to what it returned, it returns   *)
(* the same string.                                                        *)
(***************************************************************************)
C8_NormalizeIdempotent == Len(norm_ret) = 2 => norm_ret[2] = norm_ret[1]

(***************************************************************************)
(* C9.  The pairs handed to check_redirect are the rows that have both a   *)
(* source and a target, each pair the two cells of one row, in the rows'   *)
(* order; a row lacking a cell gives no pair and shifts nothing.           *)
(***************************************************************************)
HasBoth(row) == NotNa(row.source) /\ NotNa(row.target)

RowPairs(df) ==
    LET whole == SelectSeq(df, HasBoth)
    IN [i \in 1..Len(whole) |-> <<whole[i].source, whole[i].target>>]

C9_PairsAreRows == pc \in {"pool", "submit", "collect", "done", "crashed"} => pairs = RowPairs(rows)

(***************************************************************************)
(* C10.  One progress update per finished pair: the k-th update is         *)
(* (k, total, floor(100 * k / total)), so the last of a run is             *)
(* (total, total, 100), and a run over no pairs emits none.                *)
(***************************************************************************)
C10_ProgressUpdates ==
    /\ Len(events) = completed
    /\ total = 0 => events = <<>>
    /\ \A k \in 1..Len(events) :
           events[k] = [completed |-> k, total |-> total, percent |-> (100 * k) \div total]

(***************************************************************************)
(* C11.  The rows shown and exported as broken are exactly the results     *)
(* whose kind is not Ok, in the results' order: HTTP errors, wrong         *)
(* destinations and transport errors are all among them and no Ok result   *)
(* is, so the Ok rows and the broken rows partition the results, and a run *)
(* whose results are all Ok shows the success notice and no broken row.    *)
(***************************************************************************)
IsOk(r) == StatusKind(r) = "Ok"

NotOk(r) == StatusKind(r) \in {"HttpError", "WrongDestination", "TransportError"}

C11_BrokenAreNotOk ==
    pc = "reported" =>
        /\ broken_df = SelectSeq(results, NotOk)
        /\ \A k \in 1..Len(results) : IsOk(results[k]) # NotOk(results[k])
        /\ Len(SelectSeq(results, IsOk)) + Len(broken_df) = Len(results)
        /\ (\A k \in 1..Len(results) : IsOk(results[k])) <=> broken_df = <<>>
        /\ notice = "success" <=> broken_df = <<>>

C11_Witness ==
    /\ pc = "reported"
    /\ Len(results) = 2
    /\ StatusKind(results[1]) = "Ok"
    /\ StatusKind(results[2]) = "WrongDestination"
    /\ broken_df = <<results[2]>>
    /\ notice = "warning"

(***************************************************************************)
(* C12.  With a worker bound <= 0 the script ends in the executor's        *)
(* ValueError before any work: no pair is submitted, no check starts, no   *)
(* request is made, and there is no result, no progress update and no      *)
(* report.                                                                 *)
(***************************************************************************)
C12_InvalidLimitFailsFast ==
    max_workers <= 0 =>
        /\ pc \in {"pairs", "pool", "ValueError"}
        /\ \A i \in 1..Len(futures) : futures[i] = NewFuture
        /\ results = <<>>
        /\ completed = 0
        /\ events = <<>>
        /\ broken_df = <<>>
        /\ notice = ""

C12_Witness ==
    /\ max_workers <= 0
    /\ pc = "ValueError"
    /\ total = 2
    /\ \A i \in 1..total : futures[i].st = "new" /\ futures[i].log = <<>>

(***************************************************************************)
(* C13.  A returned tuple is a transport error only when no request of the *)
(* pair obtained an HTTP status: when the HEAD answered with a status      *)
(* >= 400 and the fallback GET then raised, the tuple is not a transport   *)
(* error without final URL.                                                *)
(***************************************************************************)
ObtainedStatus(req) == ~req.exc /\ req.status # 0

C13_TransportErrorOnlyWithoutStatus ==
    \A i \in ReturnedChecks :
        LET log == futures[i].log
            r == futures[i].out.ret
        IN /\ StatusKind(r) = "TransportError" =>
                  \A k \in 1..Len(log) : ~ObtainedStatus(log[k])
           /\ (Len(log) = 2 /\ ObtainedStatus(log[1]) /\ log[1].status >= 400 /\ log[2].exc) =>
                  ~(StatusKind(r) = "TransportError" /\ r.final_url = None)

(***************************************************************************)
(* C14.  When the HEAD request raised a transport failure, the check is    *)
(* over with that one request: no GET follows, nothing is classified (not  *)
(* even a target that classification would raise on), and the tuple        *)
(* returned is a transport error for the pair without final URL.           *)
(***************************************************************************)
HeadFailed(i) == futures[i].log # <<>> /\ futures[i].log[1].exc

C14_HeadFailureShortCircuits ==
    \A i \in 1..total :
        HeadFailed(i) =>
            LET r == futures[i].out.ret
            IN /\ i \in ReturnedChecks
               /\ Len(futures[i].log) = 1
               /\ futures[i].log[1].method = "HEAD"
               /\ StatusKind(r) = "TransportError"
               /\ r.final_url = None
               /\ r.source = pairs[i][1]
               /\ r.target = pairs[i][2]

C14_Witness ==
    \E i \in ReturnedChecks :
        /\ HeadFailed(i)
        /\ NormalizeRaises(pairs[i][2])
        /\ StatusKind(futures[i].out.ret) = "TransportError"

(***************************************************************************)
(* C15.  A check issues at most two requests, at most one HEAD and at most *)
(* one GET, all to the pair's source; the GET is issued only after the     *)
(* HEAD has completed, so that at most one request of a pair is in flight, *)
(* whatever the other workers are doing.                                   *)
(***************************************************************************)
InFlight(i) ==
    IF futures[i].st = "head" THEN <<"HEAD">>
    ELSE IF futures[i].st = "get" THEN <<"GET">>
    ELSE <<>>

\* the methods of the requests issued so far, in the order of their issue
Issued(i) == [k \in 1..Len(futures[i].log) |-> futures[i].log[k].method] \o InFlight(i)

C15_HeadThenGet ==
    \A i \in 1..total :
        /\ Len(Issued(i)) <= 2
        /\ Issued(i) \in {<<>>, <<"HEAD">>, <<"HEAD", "GET">>}
        /\ Len(InFlight(i)) <= 1
        /\ InFlight(i) = <<"GET">> =>
               /\ Len(futures[i].log) = 1
               /\ futures[i].log[1].method = "HEAD"
        /\ \A k \in 1..Len(futures[i].log) : futures[i].log[k].to = pairs[i][1]

C15_Witness ==
    /\ total = 2
    /\ InFlight(1) = <<"GET">>
    /\ InFlight(2) = <<"HEAD">>
    /\ Issued(1) = <<"HEAD", "GET">>

(***************************************************************************)
(* C16.  A GET is issued only after a HEAD that answered with a status     *)
(* >= 400 or with the status 0.  After a HEAD that answered with a status  *)
(* in 1..399 the check is over with that one request, and a returned tuple *)
(* is classified by the HEAD's status and final URL.                       *)
(***************************************************************************)
HeadStatusBelow400(i) ==
    /\ futures[i].log # <<>>
    /\ ~futures[i].log[1].exc
    /\ futures[i].log[1].status \in 1..399

C16_FallbackOnlyOnErrorStatus ==
    \A i \in 1..total :
        /\ (futures[i].st = "get" \/ Len(futures[i].log) >= 2) => FellBack(i)
        /\ HeadStatusBelow400(i) =>
               LET head == futures[i].log[1]
                   r == futures[i].out.ret
               IN /\ i \in Over
                  /\ Len(futures[i].log) = 1
                  /\ head.method = "HEAD"
                  /\ futures[i].out.exc = "" =>
                         /\ StatusKind(r) = KindBy(head, pairs[i][2])
                         /\ StatusKind(r) \in {"Ok", "WrongDestination"}
                         /\ r.final_url = Str(head.url)

C16_Witness ==
    \E i \in ReturnedChecks :
        /\ HeadStatusBelow400(i)
        /\ futures[i].log[1].status = 399
        /\ Len(futures[i].log) = 1
        /\ StatusKind(futures[i].out.ret) = "WrongDestination"

(***************************************************************************)
(* C17.  The status is tested before the URLs: a check whose last request  *)
(* answered with a status >= 400 returns an HTTP error that carries that   *)
(* status and the response's final URL, also when the normalized final URL *)
(* equals the normalized target.  A returned tuple is a wrong destination  *)
(* exactly when the last status is below 400 and the normalized URLs       *)
(* differ, and it then carries the response's final URL in its text and    *)
(* in its final-URL field.                                                 *)
(***************************************************************************)
C17_StatusBeforeUrl ==
    \A i \in Over :
        LET last == LastRequest(i)
            r == futures[i].out.ret
        IN ~last.exc =>
               /\ last.status >= 400 =>
                      /\ futures[i].out.exc = ""
                      /\ StatusKind(r) = "HttpError"
                      /\ r.status.code = last.status
                      /\ r.final_url = Str(last.url)
               /\ futures[i].out.exc = "" =>
                      /\ StatusKind(r) = "WrongDestination" <=>
                             /\ last.status < 400
                             /\ normalize(Str(last.url)) # normalize(pairs[i][2])
                      /\ StatusKind(r) = "WrongDestination" =>
                             /\ r.status.url = last.url
                             /\ r.final_url = Str(last.url)

C17_Witness ==
    \E i \in ReturnedChecks :
        /\ ~LastRequest(i).exc
        /\ LastRequest(i).status = 404
        /\ normalize(Str(LastRequest(i).url)) = normalize(pairs[i][2])
        /\ StatusKind(futures[i].out.ret) = "HttpError"
        /\ futures[i].out.ret.final_url = Str(LastRequest(i).url)

(***************************************************************************)
(* C18.  normalize returns the empty string for None and for the empty     *)
(* string; what it returns never ends in "/"; and a string that differs    *)
(* from the argument only in the case of its letters, in whitespace around *)
(* it or in one more trailing "/" normalizes to the same string.           *)
(***************************************************************************)
SwapCaseChar(c) == IF c = "a" THEN "A" ELSE IF c = "A" THEN "a" ELSE c

SwapCase(s) == [i \in 1..Len(s) |-> SwapCaseChar(s[i])]

Variants(s) ==
    {Str(SwapCase(s)), Str(Lower(s)), Str(<<" ">> \o s), Str(s \o <<" ">>), Str(s \o <<"/">>)}

EndsInSlash(s) == s # <<>> /\ s[Len(s)] = "/"

C18_NormalizeCanonical ==
    Len(norm_ret) >= 1 =>
        /\ Falsy(norm_arg) => norm_ret[1] = <<>>
        /\ ~EndsInSlash(norm_ret[1])
        /\ norm_arg.t = "str" =>
               \A v \in Variants(norm_arg.s) : normalize(v) = norm_ret[1]

(***************************************************************************)
(* C19.  Under fair scheduling and with every request ending, a run with a *)
(* worker bound >= 1 starts and completes every submitted check, also the  *)
(* checks queued beyond the bound, and ends reported with one result per   *)
(* pair.                                                                   *)
(***************************************************************************)
StateOf(i) == IF i \in 1..Len(futures) THEN futures[i].st ELSE "none"

C19_EveryPairCollected ==
    max_workers >= 1 =>
        /\ \A i \in 1..MaxRows :
               (StateOf(i) = "pending") ~> (StateOf(i) \in {"finished", "yielded"})
        /\ <>(pc = "reported" /\ Len(results) = total)

(***************************************************************************)
(* C20.  However the workers' completions interleave, no update of the     *)
(* results list or of the counter is lost or made twice: the counter       *)
(* equals the number of collected results in every state, the k-th         *)
(* progress update reports k, every check that returned and was collected  *)
(* has exactly one result and no other check has any, the counter never    *)
(* exceeds total, and it equals total at the end of the run.               *)
(***************************************************************************)
CollectedChecks == {i \in 1..total : futures[i].st = "yielded" /\ futures[i].out.exc = ""}

C20_CounterMatchesResults ==
    /\ completed = Len(results)
    /\ completed <= total
    /\ Len(events) = completed
    /\ \A k \in 1..Len(events) : events[k].completed = k /\ events[k].total = total
    /\ Len(results) = Cardinality(CollectedChecks)
    /\ \A i \in 1..total :
           Cardinality(ResultsOf(i)) = IF i \in CollectedChecks THEN 1 ELSE 0
    /\ pc \in {"done", "reported"} => completed = total

C20_Witness ==
    /\ pc = "collect"
    /\ total = 2
    /\ completed = 1
    /\ Len(events) = 1
    /\ futures[2].st = "yielded"
    /\ futures[1].st = "finished"
    /\ results = <<futures[2].out.ret>>

====
